---- MODULE Spec2Model ----
(***************************************************************************)
(* Package tsn (src/tsn.go): a process-wide registry of wall clocks, one   *)
(* database connection per clock name, and the TSN issuer that reads the   *)
(* next value of the database's sequence.                                  *)
(*                                                                         *)
(* Callers are goroutines.  Each call of GetWallClock is a sequence of     *)
(* steps (read-lock lookup, sql.Open, write-lock publish, ping) that may   *)
(* interleave with the steps of other callers.  NewTSN is one round trip   *)
(* to the database and is atomic at the database.                          *)
(***************************************************************************)
EXTENDS Integers, Sequences, FiniteSets, TLC

\* ---------------------------------------------------------------- bounds
NumCallers == 2      \* concurrent goroutines calling into the package
MaxCalls   == 2      \* GetWallClock calls started in one behaviour
MaxTSN     == 2      \* values the databases hand out in one behaviour

Procs == 1..NumCallers
Names == {"a", "b"}

\* ------------------------------------------------------- values and types
\* the nil *WallClock / the absent map key
Nil == 0

\* the name argument of a caller that is in no call
NoName == ""

\* the "$database$" variable of the connection string template
Placeholder == "$database$"

\* connection string templates the environment may hold (WALLCLOCK_DB)
Templates ==
    { <<"db=", Placeholder, "app=", Placeholder>>,
      <<"db=", "clock">> }

\* strings.Replace(s, old, new, 1): the first occurrence only
RECURSIVE ReplaceFirst(_, _, _)
ReplaceFirst(s, old, new) ==
    IF s = <<>> THEN <<>>
    ELSE IF Head(s) = old THEN <<new>> \o Tail(s)
    ELSE <<Head(s)>> \o ReplaceFirst(Tail(s), old, new)

\* getDbTemplate: the cached template, read from the environment while
\* empty.  The cache is read and written without a lock; every writer stores
\* the same environment value, so a caller sees the empty cache (and reads
\* the environment itself) or the template, and a torn read faults inside
\* add, which is the panic branch of AddOpen.
getDbTemplate(cached, environ) ==
    IF cached = <<>> THEN environ ELSE cached

\* dbname(name): the connection string of the clock called name
dbname(template, name) ==
    ReplaceFirst(template, Placeholder, name)

\* the databases the process can connect to under template t
Targets(t) == { dbname(t, n) : n \in Names }

\* the number of values the databases have handed out
RECURSIVE Issued(_, _)
Issued(seqs, dbs) ==
    IF dbs = {} THEN 0
    ELSE LET d == CHOOSE x \in dbs : TRUE
         IN seqs[d] + Issued(seqs, dbs \ {d})

VARIABLES
    wallclocks,        \* the global map name -> *WallClock (Nil: key absent)
    wallclocksRWLock,  \* [readers: set of callers, writer: caller or Nil]
    dbTemplate,        \* the cached connection string template
    environ,           \* os.Getenv("WALLCLOCK_DB")
    objs,              \* the WallClock objects built so far (index = pointer)
    sequence,          \* per database: the last value of clock.new_tsn()
    pc,                \* per caller: where it is inside GetWallClock
    arg,               \* per caller: the name argument of its call
    wc,                \* per caller: the local variable wc of add
    ret,               \* per caller: what its last public call returned
    tsnret,            \* what the last NewTSN call returned, and to whom
    log,               \* per caller: the values NewTSN returned, in order
    firstOk,           \* per name: the handle of the first successful call
    failed,            \* per name: a call for the name has returned an error
    raced,             \* per name: two calls for the name have overlapped
    calls              \* GetWallClock calls started

vars == << wallclocks, wallclocksRWLock, dbTemplate, environ, objs,
           sequence, pc, arg, wc, ret, tsnret, log, firstOk, failed, raced,
           calls >>

\* ------------------------------------------------------------ error paths
\* checkErr(trace, err): panics exactly when err is not nil
checkErr(err) == err

\* a lookup that never finds the entry
LookupAlwaysMisses(m, name) == [wc |-> Nil, ok |-> FALSE]

\* wc, ok := wallclocks[name]
Lookup(m, name) == [wc |-> m[name], ok |-> m[name] # Nil]

\* a store that replaces the map by one holding the new entry alone
StoreInFreshMap(m, name, h) == [n \in DOMAIN m |-> IF n = name THEN h ELSE Nil]

\* wallclocks[name] = wc
Store(m, name, h) == [m EXCEPT ![name] = h]

\* GetWallClock without the deferred recover: the panic reaches the caller
GetWallClockNoRecover(h, panicked) ==
    [ wc |-> IF panicked THEN Nil ELSE h,
      err |-> FALSE,
      escaped |-> panicked ]

\* GetWallClock with wc assigned before the panic: the handle comes back
\* together with the error
GetWallClockReturnsHandle(h, panicked) ==
    [ wc |-> h,
      err |-> panicked,
      escaped |-> FALSE ]

\* GetWallClock's deferred recover: a panic inside get leaves the named
\* result wc unassigned (nil) and sets err; nothing escapes to the caller.
GetWallClockReturn(h, panicked) ==
    [ wc |-> IF panicked THEN Nil ELSE h,
      err |-> panicked,
      escaped |-> FALSE ]

\* NewTSN with the result shadowed (tsn := newTSN(wc.db)): the named
\* result stays 0
NewTSNReturnShadowed(tsn, panicked) ==
    [ tsn |-> 0,
      err |-> panicked,
      escaped |-> FALSE ]

\* NewTSN without the deferred recover: the panic reaches the caller
NewTSNNoRecover(tsn, panicked) ==
    [ tsn |-> IF panicked THEN 0 ELSE tsn,
      err |-> FALSE,
      escaped |-> panicked ]

\* NewTSN's deferred recover: a panic inside newTSN (or the nil dereference
\* of wc.db) leaves tsn at 0 and sets err.
NewTSNReturn(tsn, panicked) ==
    [ tsn |-> IF panicked THEN 0 ELSE tsn,
      err |-> panicked,
      escaped |-> FALSE ]

\* newTSN without the row.Scan: the zero value of tsn is returned
newTSNUnscanned(row) == 0

\* newTSN(db): the row of "select clock.new_tsn()" scanned into an int64
newTSN(row) == row

\* ------------------------------------------------------------------ Init
NoRet == [op |-> "none"]

Init ==
    /\ wallclocks = [n \in Names |-> Nil]
    /\ wallclocksRWLock = [readers |-> {}, writer |-> Nil]
    /\ dbTemplate = <<>>
    /\ environ \in Templates
    /\ objs = <<>>
    /\ sequence = [t \in Targets(environ) |-> 0]
    /\ pc = [p \in Procs |-> "idle"]
    /\ arg = [p \in Procs |-> NoName]
    /\ wc = [p \in Procs |-> Nil]
    /\ ret = [p \in Procs |-> NoRet]
    /\ log = [p \in Procs |-> <<>>]
    /\ tsnret = NoRet
    /\ firstOk = [n \in Names |-> Nil]
    /\ failed = [n \in Names |-> FALSE]
    /\ raced = [n \in Names |-> FALSE]
    /\ calls = 0

\* ------------------------------------------------------- GetWallClock
InFlight(p) == pc[p] # "idle"

\* the caller returns from GetWallClock with result r; c: the record of the
\* call so far, missed: the lookup found no entry, panic: the call of
\* checkErr that panicked ("none": none)
Return(p, c, r, missed, panic) ==
    /\ pc' = [pc EXCEPT ![p] = IF r.escaped THEN "crashed" ELSE "idle"]
    /\ ret' = [ret EXCEPT ![p] =
                 [ op |-> "GetWallClock", name |-> arg[p],
                   wc |-> r.wc, err |-> r.err, escaped |-> r.escaped,
                   missed |-> missed, panic |-> panic,
                   prior |-> c.prior, afterFailure |-> c.afterFailure,
                   opens |-> c.opens, pings |-> c.pings ]]
    /\ failed' = IF r.err THEN [failed EXCEPT ![arg[p]] = TRUE] ELSE failed
    /\ arg' = [arg EXCEPT ![p] = NoName]
    /\ wc' = [wc EXCEPT ![p] = Nil]
    /\ firstOk' = IF ~r.err /\ ~r.escaped /\ firstOk[arg[p]] = Nil
                  THEN [firstOk EXCEPT ![arg[p]] = r.wc]
                  ELSE firstOk

\* a caller that has made no call yet
Fresh(p) == pc[p] = "idle" /\ ret[p].op = "none"

\* a caller enters GetWallClock(n); the callers that have made no call yet
\* are interchangeable, and the lowest-numbered of them goes first
Call(p, n) ==
    /\ pc[p] = "idle"
    /\ \A q \in Procs : q < p => ~Fresh(q)
    /\ calls < MaxCalls
    /\ calls' = calls + 1
    /\ pc' = [pc EXCEPT ![p] = "get"]
    /\ arg' = [arg EXCEPT ![p] = n]
    /\ wc' = [wc EXCEPT ![p] = Nil]
    /\ ret' = [ret EXCEPT ![p] =
                 [ op |-> "pending", prior |-> firstOk[n],
                   afterFailure |-> failed[n], pre |-> wallclocks,
                   opens |-> 0, pings |-> 0 ]]
    /\ raced' = [raced EXCEPT ![n] =
                   @ \/ \E q \in Procs \ {p} : InFlight(q) /\ arg[q] = n]
    /\ UNCHANGED << wallclocks, wallclocksRWLock, dbTemplate, environ, objs,
                    sequence, tsnret, log, firstOk, failed >>

\* get: wallclocksRWLock.RLock()
GetRLock(p) ==
    /\ pc[p] = "get"
    /\ wallclocksRWLock.writer = Nil
    /\ wallclocksRWLock' =
         [wallclocksRWLock EXCEPT !.readers = @ \cup {p}]
    /\ pc' = [pc EXCEPT ![p] = "lookup"]
    /\ UNCHANGED << wallclocks, dbTemplate, environ, objs, sequence, arg,
                    wc, ret, tsnret, log, firstOk, failed, raced, calls >>

\* get returning the entry it found without RUnlock
GetLookupKeepsRLock(p) ==
    /\ pc[p] = "lookup"
    /\ LET r == Lookup(wallclocks, arg[p]) IN
         IF r.ok
         THEN /\ Return(p, ret[p], GetWallClockReturn(r.wc, FALSE), FALSE,
                        "none")
              /\ UNCHANGED wallclocksRWLock
         ELSE /\ pc' = [pc EXCEPT ![p] = "open"]
              /\ wallclocksRWLock' =
                   [wallclocksRWLock EXCEPT !.readers = @ \ {p}]
              /\ UNCHANGED << ret, firstOk, failed, arg, wc >>
    /\ UNCHANGED << wallclocks, dbTemplate, environ, objs, sequence,
                    tsnret, log, raced, calls >>

\* get: the map read, RUnlock, and the return of the entry when present
GetLookup(p) ==
    /\ pc[p] = "lookup"
    /\ wallclocksRWLock' =
         [wallclocksRWLock EXCEPT !.readers = @ \ {p}]
    /\ LET r == Lookup(wallclocks, arg[p]) IN
         IF r.ok
         THEN /\ Return(p, ret[p], GetWallClockReturn(r.wc, FALSE), FALSE,
                        "none")
         ELSE /\ pc' = [pc EXCEPT ![p] = "open"]
              /\ UNCHANGED << ret, firstOk, failed, arg, wc >>
    /\ UNCHANGED << wallclocks, dbTemplate, environ, objs, sequence,
                    tsnret, log, raced, calls >>

\* add: new(WallClock), dbname(name), sql.Open, checkErr("add", err).
\* A WallClock whose open failed is dropped with the panic and gets no index.
\* No code of the package closes a connection: closed stays FALSE.
AddOpen(p) ==
    /\ pc[p] = "open"
    /\ dbTemplate' = getDbTemplate(dbTemplate, environ)
    /\ \E openErr \in BOOLEAN :
         IF checkErr(openErr)
         THEN /\ Return(p, [ret[p] EXCEPT !.opens = @ + 1],
                        GetWallClockReturn(Nil, TRUE), TRUE, "add")
              /\ UNCHANGED objs
         ELSE /\ objs' = Append(objs,
                   [ name |-> arg[p],
                     dbname |-> dbname(dbTemplate', arg[p]),
                     ping |-> "none",
                     closed |-> FALSE ])
              /\ wc' = [wc EXCEPT ![p] = Len(objs) + 1]
              /\ pc' = [pc EXCEPT ![p] = "lock"]
              /\ ret' = [ret EXCEPT ![p].opens = @ + 1]
              /\ UNCHANGED << firstOk, failed, arg >>
    /\ UNCHANGED << wallclocks, wallclocksRWLock, environ, sequence,
                    tsnret, log, raced, calls >>

\* add: wallclocksRWLock.Lock()
AddLock(p) ==
    /\ pc[p] = "lock"
    /\ wallclocksRWLock.writer = Nil
    /\ wallclocksRWLock.readers = {}
    /\ wallclocksRWLock' = [wallclocksRWLock EXCEPT !.writer = p]
    /\ pc' = [pc EXCEPT ![p] = "publish"]
    /\ UNCHANGED << wallclocks, dbTemplate, environ, objs, sequence, arg,
                    wc, ret, tsnret, log, firstOk, failed, raced, calls >>

\* add storing the handle and keeping the write lock over the ping
AddPublishKeepsLock(p) ==
    /\ pc[p] = "publish"
    /\ wallclocks' = Store(wallclocks, arg[p], wc[p])
    /\ pc' = [pc EXCEPT ![p] = "ping"]
    /\ UNCHANGED << wallclocksRWLock, dbTemplate, environ, objs, sequence,
                    arg, wc, ret, tsnret, log, firstOk, failed, raced,
                    calls >>

\* add: wallclocks[name] = wc; wallclocksRWLock.Unlock()
AddPublish(p) ==
    /\ pc[p] = "publish"
    /\ wallclocks' = Store(wallclocks, arg[p], wc[p])
    /\ wallclocksRWLock' = [wallclocksRWLock EXCEPT !.writer = Nil]
    /\ pc' = [pc EXCEPT ![p] = "ping"]
    /\ UNCHANGED << dbTemplate, environ, objs, sequence, arg, wc, ret,
                    tsnret, log, firstOk, failed, raced, calls >>

\* add: ping(db) and the return of wc; the database answers the ping or
\* does not, and a failed ping panics
AddPing(p) ==
    /\ pc[p] = "ping"
    /\ \E pingErr \in BOOLEAN :
         /\ objs' = [objs EXCEPT ![wc[p]].ping =
                       IF pingErr THEN "failed" ELSE "ok"]
         /\ Return(p, [ret[p] EXCEPT !.pings = @ + 1],
                   GetWallClockReturn(wc[p], checkErr(pingErr)), TRUE,
                   IF checkErr(pingErr) THEN "ping" ELSE "none")
    /\ UNCHANGED << wallclocks, wallclocksRWLock, dbTemplate, environ,
                    sequence, tsnret, log, raced, calls >>

\* ------------------------------------------------------------- NewTSN
\* the caller's own variable wc, as in  wc, err := GetWallClock(name)
Held(p) == ret[p].wc

\* the caller returns from NewTSN with result r; panic: what panicked
\* inside ("newTSN": checkErr, "nil": the dereference of a nil handle),
\* sent: the queries the call has sent to the database
ReturnTSN(p, r, panic, sent) ==
    /\ tsnret' = [ op |-> "NewTSN", caller |-> p, tsn |-> r.tsn,
                   err |-> r.err, escaped |-> r.escaped, panic |-> panic,
                   sent |-> sent ]
    /\ pc' = [pc EXCEPT ![p] = IF r.escaped THEN "crashed" ELSE "idle"]
    /\ log' = IF r.err \/ r.escaped THEN log
              ELSE [log EXCEPT ![p] =
                      Append(@, [wc |-> Held(p), tsn |-> r.tsn])]

\* NewTSN sending the query a second time when the first answer is an error
NewTSNRetries(p) ==
    /\ pc[p] = "idle"
    /\ ret[p].op = "GetWallClock"
    /\ Held(p) # Nil
    /\ LET db == objs[Held(p)].dbname IN
       \E outcome \in {"ok", "lost", "failed"} :
         IF outcome = "failed"
         THEN /\ ReturnTSN(p, NewTSNReturn(0, checkErr(TRUE)), "newTSN", 2)
              /\ UNCHANGED sequence
         ELSE /\ Issued(sequence, DOMAIN sequence) < MaxTSN
              /\ sequence' = [sequence EXCEPT ![db] = @ + 1]
              /\ ReturnTSN(p, NewTSNReturn(newTSN(sequence'[db]),
                                           checkErr(outcome = "lost")),
                           IF checkErr(outcome = "lost") THEN "newTSN"
                           ELSE "none",
                           IF outcome = "lost" THEN 2 ELSE 1)
    /\ UNCHANGED << wallclocks, wallclocksRWLock, dbTemplate, environ, objs,
                    arg, wc, ret, firstOk, failed, raced, calls >>

\* NewTSN dropping the registry entry of a handle whose query failed
NewTSNEvicts(p) ==
    /\ pc[p] = "idle"
    /\ ret[p].op = "GetWallClock"
    /\ Held(p) # Nil
    /\ LET db == objs[Held(p)].dbname IN
       \E outcome \in {"ok", "lost", "failed"} :
         IF outcome = "failed"
         THEN /\ ReturnTSN(p, NewTSNReturn(0, checkErr(TRUE)), "newTSN", 1)
              /\ wallclocks' =
                   [wallclocks EXCEPT ![objs[Held(p)].name] = Nil]
              /\ UNCHANGED sequence
         ELSE /\ Issued(sequence, DOMAIN sequence) < MaxTSN
              /\ sequence' = [sequence EXCEPT ![db] = @ + 1]
              /\ ReturnTSN(p, NewTSNReturn(newTSN(sequence'[db]),
                                           checkErr(outcome = "lost")),
                           IF checkErr(outcome = "lost") THEN "newTSN"
                           ELSE "none", 1)
              /\ UNCHANGED wallclocks
    /\ UNCHANGED << wallclocksRWLock, dbTemplate, environ, objs,
                    arg, wc, ret, firstOk, failed, raced, calls >>

\* (wc *WallClock).NewTSN() on the handle the caller holds: one round trip
\* to the handle's database.  The database hands out its next value ("ok"),
\* or hands it out and the answer is lost on the way back ("lost": the value
\* is consumed and the caller gets an error), or is not reached ("failed").
NewTSN(p) ==
    /\ pc[p] = "idle"
    /\ ret[p].op = "GetWallClock"
    /\ Held(p) # Nil
    /\ LET db == objs[Held(p)].dbname IN
       \E outcome \in {"ok", "lost", "failed"} :
         IF outcome = "failed"
         THEN /\ ReturnTSN(p, NewTSNReturn(0, checkErr(TRUE)), "newTSN", 1)
              /\ UNCHANGED sequence
         ELSE /\ Issued(sequence, DOMAIN sequence) < MaxTSN
              /\ sequence' = [sequence EXCEPT ![db] = @ + 1]
              /\ ReturnTSN(p, NewTSNReturn(newTSN(sequence'[db]),
                                           checkErr(outcome = "lost")),
                           IF checkErr(outcome = "lost") THEN "newTSN"
                           ELSE "none", 1)
    /\ UNCHANGED << wallclocks, wallclocksRWLock, dbTemplate, environ, objs,
                    arg, wc, ret, firstOk, failed, raced, calls >>

\* NewTSN on the nil handle a failed GetWallClock returned: wc.db
\* dereferences nil inside the recover scope.
NewTSNNil(p) ==
    /\ pc[p] = "idle"
    /\ ret[p].op = "GetWallClock"
    /\ Held(p) = Nil
    /\ ReturnTSN(p, NewTSNReturn(0, TRUE), "nil", 0)
    /\ UNCHANGED << wallclocks, wallclocksRWLock, dbTemplate, environ, objs,
                    sequence, arg, wc, ret, firstOk, failed, raced, calls >>

Next ==
    \/ \E p \in Procs, n \in Names : Call(p, n)
    \/ \E p \in Procs : GetRLock(p)
    \/ \E p \in Procs : GetLookup(p)
    \/ \E p \in Procs : AddOpen(p)
    \/ \E p \in Procs : AddLock(p)
    \/ \E p \in Procs : AddPublish(p)
    \/ \E p \in Procs : AddPing(p)
    \/ \E p \in Procs : NewTSN(p)
    \/ \E p \in Procs : NewTSNNil(p)

Spec == Init /\ [][Next]_vars

\* The scheduler runs every goroutine that can take a step, sql.Open and
\* db.Ping return, and the RWMutex hands the lock to a waiting caller once
\* it is free.  Callers are not obliged to start calls.
Fairness ==
    \A p \in Procs :
        /\ WF_vars(GetRLock(p))
        /\ WF_vars(GetLookup(p))
        /\ WF_vars(AddOpen(p))
        /\ WF_vars(AddLock(p))
        /\ WF_vars(AddPublish(p))
        /\ WF_vars(AddPing(p))

FairSpec == Spec /\ Fairness

\* ================================================================ claims
Returned(p) == ret[p].op = "GetWallClock"
Succeeded(p) == Returned(p) /\ ~ret[p].err
ObjsOf(n) == { h \in DOMAIN objs : objs[h].name = n }

\* C1: concurrent first-time calls of GetWallClock with the same name (each
\* found the name absent at its lookup) that return without error all
\* return the same handle.
C1_FirstCallsConverge ==
    \A p, q \in Procs :
        ( /\ Succeeded(p) /\ Succeeded(q)
          /\ ret[p].name = ret[q].name
          /\ ret[p].missed /\ ret[q].missed )
        => ret[p].wc = ret[q].wc

\* C2: for every name at most one WallClock with an opened connection has
\* ever been created.
C2_OneHandlePerName ==
    \A n \in Names : Cardinality(ObjsOf(n)) <= 1

\* C3: a GetWallClock call that returns an error leaves the wallclocks map
\* as it was when the call began.
C3_FailureLeavesMapUnchanged ==
    [][ \A p \in Procs :
          ( /\ ret[p].op = "pending"
            /\ ret'[p].op = "GetWallClock"
            /\ ret'[p].err )
          => wallclocks' = ret[p].pre ]_vars

\* C4: every name present in the wallclocks map maps to a handle whose
\* connection has passed a successful ping.
C4_PublishedHandlesArePinged ==
    \A n \in Names :
        wallclocks[n] # Nil => objs[wallclocks[n]].ping = "ok"

\* C5: whenever GetWallClock returns a nil error, the handle is not nil and
\* its connection has passed a successful ping.
C5_NilErrorMeansPingedHandle ==
    \A p \in Procs :
        Succeeded(p) =>
            /\ ret[p].wc # Nil
            /\ objs[ret[p].wc].ping = "ok"

\* C6: no panic escapes GetWallClock or NewTSN: a panic raised inside (open
\* error, ping error, query or scan error, nil handle) is recovered, the
\* call returns with a non-nil error, and no caller is terminated.
C6_NoPanicEscapes ==
    /\ \A p \in Procs :
          /\ pc[p] # "crashed"
          /\ Returned(p) =>
               /\ ~ret[p].escaped
               /\ ret[p].panic # "none" => ret[p].err
    /\ tsnret.op = "NewTSN" =>
          /\ ~tsnret.escaped
          /\ tsnret.panic # "none" => tsnret.err

\* C6 witness: one caller's GetWallClock has panicked on the ping and
\* returned an error, another caller's NewTSN has panicked on the query and
\* returned an error.
C6_Witness ==
    \E p \in Procs :
        /\ Returned(p) /\ ret[p].panic = "ping" /\ ret[p].err
        /\ tsnret.op = "NewTSN" /\ tsnret.panic = "newTSN" /\ tsnret.err
        /\ pc[p] = "idle" /\ pc[tsnret.caller] = "idle"

C8_PublishedEntryNeverOverwritten ==
    [][ \A n \in Names :
          wallclocks[n] # Nil => wallclocks'[n] = wallclocks[n] ]_vars

\* C9: the values one caller's successful NewTSN calls return on one handle
\* are strictly increasing in the order the calls complete.
C9_SingleCallerStrictlyIncreasing ==
    \A p \in Procs :
        \A i, j \in DOMAIN log[p] :
            (i < j /\ log[p][i].wc = log[p][j].wc)
            => log[p][i].tsn < log[p][j].tsn

\* C9 witness: a caller has two values from the same handle.
C9_Witness ==
    \E p \in Procs :
        \E i, j \in DOMAIN log[p] :
            i < j /\ log[p][i].wc = log[p][j].wc

\* C10: all values NewTSN has returned for one clock name, to any callers
\* and through any handles of that name, are pairwise distinct.
C10_NoDuplicatePerName ==
    \A p, q \in Procs :
        \A i \in DOMAIN log[p], j \in DOMAIN log[q] :
            ( /\ (p # q \/ i # j)
              /\ objs[log[p][i].wc].name = objs[log[q][j].wc].name )
            => log[p][i].tsn # log[q][j].tsn

\* C10 witness: two callers hold different handles of the same name, from
\* racing first-time calls, and each has a value from its handle.
C10_Witness ==
    \E p, q \in Procs :
        \E i \in DOMAIN log[p], j \in DOMAIN log[q] :
            /\ p # q
            /\ log[p][i].wc # log[q][j].wc
            /\ objs[log[p][i].wc].name = objs[log[q][j].wc].name

\* the value the database of clock name n hands out next
NextValue(seqs, n) == seqs[dbname(environ, n)] + 1

\* C11: the registry never removes entries: after every step the names
\* present in the wallclocks map include the names present before it.
C11_RegistryOnlyGrows ==
    [][ \A n \in Names : wallclocks[n] # Nil => wallclocks'[n] # Nil ]_vars

\* C11 witness: both names are present in the map (an entry has stayed
\* while another was stored).
C11_Witness ==
    \A n \in Names : wallclocks[n] # Nil

\* C12: for two distinct clock names a and b, under every connection string
\* template, a NewTSN call on a handle of a leaves the next value of b
\* unchanged.
C12_ClocksIndependent ==
    [][ sequence' # sequence =>
          LET a == objs[Held(tsnret'.caller)].name IN
            \A b \in Names \ {a} :
                NextValue(sequence', b) = NextValue(sequence, b) ]_vars

\* C13: when all calls have returned, every connection GetWallClock has
\* opened is the connection of the handle published for its name or has
\* been closed.
C13_NoLeakedConnection ==
    (\A p \in Procs : pc[p] = "idle")
    => \A h \in DOMAIN objs :
           wallclocks[objs[h].name] = h \/ objs[h].closed

\* C14: a call for a name that began after a call for the name had failed,
\* and before any call for the name had succeeded, goes through add (it
\* opens a connection and pings again).
C14_RetryAfterFailure ==
    \A p \in Procs :
        ( /\ Returned(p)
          /\ ret[p].afterFailure
          /\ ret[p].prior = Nil )
        => /\ ret[p].missed
           /\ ret[p].opens = 1

\* C15: no caller holds wallclocksRWLock while it is in sql.Open, in db.Ping
\* or in the TSN query; and while a caller is in sql.Open or db.Ping, a
\* caller about to look up a name can take the read lock and finish its
\* lookup, unless some caller is inside the store of add at that moment.
HoldsLock(p) ==
    p \in wallclocksRWLock.readers \/ wallclocksRWLock.writer = p

C16_ExactlyOneRequest ==
    /\ tsnret.op = "NewTSN" => tsnret.sent = 1
    /\ \A p \in Procs :
         ret[p].op \in {"pending", "GetWallClock"}
         => ret[p].opens <= 1 /\ ret[p].pings <= 1

\* C16 (amended): every NewTSN call on a non-nil handle sends exactly one
\* query whether it succeeds or fails, a NewTSN call on a nil handle sends
\* none, and every GetWallClock call opens at most one connection and pings
\* at most once.
C16_NoRetries ==
    /\ tsnret.op = "NewTSN" =>
         tsnret.sent = IF tsnret.panic = "nil" THEN 0 ELSE 1
    /\ \A p \in Procs :
         ret[p].op \in {"pending", "GetWallClock"}
         => ret[p].opens <= 1 /\ ret[p].pings <= 1

\* C16 witness: a NewTSN call on a non-nil handle has failed after its one
\* query, and the caller's GetWallClock call had opened and pinged once.
C16_Witness ==
    /\ tsnret.op = "NewTSN"
    /\ tsnret.err
    /\ tsnret.panic = "newTSN"
    /\ tsnret.sent = 1
    /\ ret[tsnret.caller].opens = 1
    /\ ret[tsnret.caller].pings = 1

\* a NewTSN call of p that returns a value
NewTSNSucceeds(p) == NewTSN(p) /\ ~tsnret'.err

\* C17: a step of NewTSN, successful or failed, leaves the wallclocks map,
\* the lock, the cached template and the fields of every handle unchanged;
\* and after a failed NewTSN a caller that still holds a handle can call
\* NewTSN again and get a value (while the databases have values to give).
C17_NewTSNLeavesStateUnchanged ==
    /\ [][ (tsnret' # tsnret \/ log' # log \/ sequence' # sequence)
           => UNCHANGED << wallclocks, wallclocksRWLock, dbTemplate,
                           objs >> ]_vars
    /\ [] ( ( /\ tsnret.op = "NewTSN"
              /\ tsnret.err
              /\ tsnret.panic = "newTSN"
              /\ pc[tsnret.caller] = "idle"
              /\ Returned(tsnret.caller)
              /\ Held(tsnret.caller) # Nil
              /\ Issued(sequence, DOMAIN sequence) < MaxTSN )
            => ENABLED NewTSNSucceeds(tsnret.caller) )

\* C17 witness: a NewTSN call has failed, its handle is still the published
\* entry of its name, and the caller can call again.
C17_Witness ==
    /\ tsnret.op = "NewTSN"
    /\ tsnret.err
    /\ tsnret.panic = "newTSN"
    /\ pc[tsnret.caller] = "idle"
    /\ Returned(tsnret.caller)
    /\ Held(tsnret.caller) # Nil
    /\ wallclocks[objs[Held(tsnret.caller)].name] = Held(tsnret.caller)
    /\ Issued(sequence, DOMAIN sequence) < MaxTSN

\* the lock is held by exactly the callers inside a lookup or a store
LockHeldOnlyInside ==
    /\ wallclocksRWLock.readers = { p \in Procs : pc[p] = "lookup" }
    /\ \A p \in Procs : wallclocksRWLock.writer = p <=> pc[p] = "publish"

\* C18: under fair scheduling every GetWallClock call returns, also when
\* other calls fail; the lock is held only by callers inside a lookup or a
\* store, so no call returns or panics holding it.
C18_EveryCallReturns ==
    /\ []LockHeldOnlyInside
    /\ \A p \in Procs : (pc[p] # "idle") ~> (pc[p] = "idle")

\* C18 witness: two overlapping calls for one name have both returned, one
\* of them with an error, and the lock is free.
C18_Witness ==
    \E p, q \in Procs :
        /\ p # q
        /\ Returned(p) /\ Returned(q)
        /\ pc[p] = "idle" /\ pc[q] = "idle"
        /\ ret[p].name = ret[q].name
        /\ raced[ret[p].name]
        /\ ret[p].err
        /\ wallclocksRWLock = [readers |-> {}, writer |-> Nil]

\* C19: whenever GetWallClock returns a non-nil error, the handle it
\* returns is nil.
C19_ErrorMeansNilHandle ==
    \A p \in Procs :
        (Returned(p) /\ ret[p].err) => ret[p].wc = Nil

\* C19 witness: a call has returned an error after its handle was created
\* and stored in the map.
C19_Witness ==
    \E p \in Procs :
        /\ Returned(p)
        /\ ret[p].err
        /\ ret[p].panic = "ping"
        /\ wallclocks[ret[p].name] # Nil

\* C20: NewTSN on a nil handle returns tsn = 0 and a non-nil error, and the
\* caller goes on.
C20_NilHandleIsRecovered ==
    (tsnret.op = "NewTSN" /\ tsnret.panic = "nil")
    => /\ tsnret.tsn = 0
       /\ tsnret.err
       /\ ~tsnret.escaped
       /\ pc[tsnret.caller] # "crashed"

\* C20 witness: NewTSN has been called on the nil handle of a failed
\* GetWallClock and has returned.
C20_Witness ==
    /\ tsnret.op = "NewTSN"
    /\ tsnret.panic = "nil"
    /\ ret[tsnret.caller].err
    /\ Held(tsnret.caller) = Nil
    /\ pc[tsnret.caller] = "idle"

====
